---- MODULE Spec2Model ----
(***************************************************************************)
(* Cross-thread protocol of the Qt frontend: the interactive (UI) thread   *)
(* running MainWindow, and the execution thread running EmuThread::run.    *)
(* Commands travel UI -> execution as queued invocations (emuQueue);       *)
(* notifications and blocking display requests travel execution -> UI      *)
(* (uiQueue).  The MTGS thread that issues a display request on behalf of  *)
(* the execution thread is folded into the execution thread, which waits   *)
(* for it; the render context it holds is named "gs".                      *)
(***************************************************************************)
EXTENDS Naturals, Integers, Sequences, FiniteSets, TLC

\* Number of user-interface operations (menu actions, stop, close) explored.
MaxUserOps == 3

VARIABLES
    uimode,      \* UI thread: "prestart", "start_wait", "main", "shutdown_wait", "stop_wait", "done"
    eloc,        \* execution thread position in run()/executeVM()
    epc,         \* continuation of the handler in progress ("idle" when none)
    ebatch,      \* events left in the processEvents() call in progress
    emuQueue,    \* queued invocations posted to the EmuThread object
    uiQueue,     \* events posted to the MainWindow object
    rt,          \* the blocking display round-trip in flight
    vmState,     \* VMManager state: Shutdown (absent), Initializing, Running, Paused, Stopping
    vmCount,     \* machines whose resources are allocated
    timerActive, \* m_background_controller_polling_timer->isActive()
    exitFlag,    \* m_event_loop exit request (QEventLoop::quit)
    m_shutdown_flag,
    m_is_fullscreen,
    m_is_rendering_to_main,
    disp,        \* s_host_display and its render device / surface
    ctxCurrent,  \* threads on which the render context is current
    mw,          \* MainWindow fields
    cfgRenderToMain, \* base setting UI/RenderToMainWindow
    containerPlatform, \* the platform on which DisplayContainer::IsNeeded can be true
    aborted,     \* "no", or the pxAssertRel / pxFailRel that terminated the process
    actor,       \* thread that took the last step
    nsub,        \* commands submitted so far
    executedLog, \* sequence numbers of the commands in the order they were dispatched
    lastStart,   \* outcome of the most recent start command
    nuser,       \* user operations performed
    emitted,     \* signals emitted by the Host::OnSaveState... callbacks (no MainWindow slot)
    lastOp,      \* the queued slot dispatched last on the execution thread
    g_gs_window_info, \* "empty", "surface" (the info of the surface in use) or
                 \* "stale" (the info of a surface destroyed since it was recorded)
    saveStates,  \* names of the save-state files that exist
    nthreads,    \* EmuThread objects created by start(); g_emu_thread is set iff > 0
    deletedWithSurface, \* a display widget was deleted while its render surface existed
    appliedSetting \* RenderToMainWindow at the last applySettings: "none", "on", "off"

vars == <<uimode, eloc, epc, ebatch, emuQueue, uiQueue, rt, vmState, vmCount, timerActive,
          exitFlag, m_shutdown_flag, m_is_fullscreen, m_is_rendering_to_main, disp,
          ctxCurrent, mw, cfgRenderToMain, containerPlatform, aborted, actor, nsub,
          executedLog, lastStart, nuser, emitted, lastOp, g_gs_window_info,
          saveStates, nthreads, deletedWithSurface, appliedSetting>>

\* The state as one record, so that a handler is a function from state to state.
W == [uimode |-> uimode, eloc |-> eloc, epc |-> epc, ebatch |-> ebatch,
      emuQueue |-> emuQueue, uiQueue |-> uiQueue, rt |-> rt, vmState |-> vmState,
      vmCount |-> vmCount, timerActive |-> timerActive, exitFlag |-> exitFlag,
      m_shutdown_flag |-> m_shutdown_flag, m_is_fullscreen |-> m_is_fullscreen,
      m_is_rendering_to_main |-> m_is_rendering_to_main, disp |-> disp,
      ctxCurrent |-> ctxCurrent, mw |-> mw, cfgRenderToMain |-> cfgRenderToMain,
      containerPlatform |-> containerPlatform, aborted |-> aborted, actor |-> actor, nsub |-> nsub, executedLog |-> executedLog,
      lastStart |-> lastStart, nuser |-> nuser, emitted |-> emitted, lastOp |-> lastOp,
      g_gs_window_info |-> g_gs_window_info, saveStates |-> saveStates,
      nthreads |-> nthreads, deletedWithSurface |-> deletedWithSurface,
      appliedSetting |-> appliedSetting]

Commit(w) ==
    /\ uimode' = w.uimode /\ eloc' = w.eloc /\ epc' = w.epc /\ ebatch' = w.ebatch
    /\ emuQueue' = w.emuQueue /\ uiQueue' = w.uiQueue /\ rt' = w.rt
    /\ vmState' = w.vmState /\ vmCount' = w.vmCount /\ timerActive' = w.timerActive
    /\ exitFlag' = w.exitFlag /\ m_shutdown_flag' = w.m_shutdown_flag
    /\ m_is_fullscreen' = w.m_is_fullscreen
    /\ m_is_rendering_to_main' = w.m_is_rendering_to_main
    /\ disp' = w.disp /\ ctxCurrent' = w.ctxCurrent /\ mw' = w.mw
    /\ cfgRenderToMain' = w.cfgRenderToMain /\ aborted' = w.aborted
    /\ containerPlatform' = w.containerPlatform
    /\ actor' = w.actor /\ nsub' = w.nsub /\ executedLog' = w.executedLog
    /\ lastStart' = w.lastStart /\ nuser' = w.nuser
    /\ emitted' = w.emitted /\ lastOp' = w.lastOp
    /\ g_gs_window_info' = w.g_gs_window_info /\ saveStates' = w.saveStates
    /\ nthreads' = w.nthreads /\ deletedWithSurface' = w.deletedWithSurface
    /\ appliedSetting' = w.appliedSetting

NoWidget == [present |-> FALSE, parent |-> "none", fs |-> FALSE]
NoRT == [kind |-> "none", done |-> FALSE, handled |-> FALSE, result |-> FALSE, users |-> {},
         path |-> "none"]
NoDisp == [exists |-> FALSE, device |-> FALSE, surface |-> FALSE]

Init ==
    /\ uimode = "prestart" /\ eloc = "none" /\ epc = "idle" /\ ebatch = 0
    /\ emuQueue = <<>> /\ uiQueue = <<>> /\ rt = NoRT
    /\ vmState = "Shutdown" /\ vmCount = 0 /\ timerActive = FALSE
    /\ exitFlag = FALSE /\ m_shutdown_flag = FALSE
    /\ m_is_fullscreen = FALSE /\ m_is_rendering_to_main = FALSE
    /\ disp = NoDisp /\ ctxCurrent = {}
    /\ mw = [widget |-> NoWidget, m_vm_valid |-> FALSE, m_vm_paused |-> FALSE,
             actions |-> "none", pauseChecked |-> FALSE, viewIndex |-> 0,
             m_was_focused |-> FALSE]
    /\ cfgRenderToMain \in BOOLEAN /\ containerPlatform \in BOOLEAN
    /\ aborted = "no" /\ actor = "ui" /\ nsub = 0 /\ executedLog = <<>>
    /\ lastStart = "none" /\ nuser = 0 /\ emitted = 0 /\ lastOp = "none"
    /\ g_gs_window_info = "empty" /\ saveStates = {} /\ nthreads = 0
    /\ deletedWithSurface = FALSE /\ appliedSetting = "none"

----------------------------------------------------------------------------
(* Plumbing: posting events and commands.                                  *)

Note(k) == [kind |-> k, fs |-> FALSE, rtm |-> FALSE]

\* A signal emitted over a plain (queued) connection to a MainWindow slot.
Emit(w, k) == [w EXCEPT !.uiQueue = Append(@, Note(k))]

\* PostCmd with the invocation placed ahead of the ones already queued.
PostCmdFront(w, op, arg) ==
    [w EXCEPT !.emuQueue = <<[op |-> op, arg |-> arg, seq |-> w.nsub + 1]>> \o @,
              !.nsub = @ + 1]

\* QMetaObject::invokeMethod(this, ..., Qt::QueuedConnection).
PostCmd(w, op, arg) ==
    [w EXCEPT !.emuQueue = Append(@, [op |-> op, arg |-> arg, seq |-> w.nsub + 1]),
              !.nsub = @ + 1]

\* m_event_loop->quit()
Quit(w) == [w EXCEPT !.exitFlag = TRUE]

\* pxAssertRel / pxFailRel: the process is terminated.
Abort(w, why) == [w EXCEPT !.aborted = why]

HasValidVM(w) == w.vmState \in {"Running", "Paused"}

----------------------------------------------------------------------------
(* Background controller poll timer and the Host:: callbacks.              *)

startBackgroundControllerPollTimer(w) == [w EXCEPT !.timerActive = TRUE]

stopBackgroundControllerPollTimer(w) == [w EXCEPT !.timerActive = FALSE]

\* Host::OnVMStarting leaving the poll timer running.
OnVMStartingTimerKept(w) == Emit(w, "onVMStarting")

OnVMStarting(w) == Emit(stopBackgroundControllerPollTimer(w), "onVMStarting")

OnVMStarted(w) == Emit(w, "onVMStarted")

OnVMDestroyed(w) == startBackgroundControllerPollTimer(Emit(w, "onVMStopped"))

OnVMPaused(w) == Emit(startBackgroundControllerPollTimer(w), "onVMPaused")

\* Host::OnVMResumed without stopBackgroundControllerPollTimer().
OnVMResumedTimerKept(w) == Emit(Quit(w), "onVMResumed")

\* Host::OnVMResumed without the quit() of the event loop.
OnVMResumedNoQuit(w) == Emit(stopBackgroundControllerPollTimer(w), "onVMResumed")

OnVMResumed(w) == Emit(stopBackgroundControllerPollTimer(Quit(w)), "onVMResumed")

----------------------------------------------------------------------------
(* VMManager.  Its implementation is outside the sources at hand; it is    *)
(* modelled from the specification's MachineLifecycle (section 4.2) and    *)
(* from the callbacks it is documented to make.                            *)

VMSetState(w, s) ==
    LET old == w.vmState
        w1 == [w EXCEPT !.vmState = s]
    IN  IF s = "Paused" /\ old # "Paused" THEN OnVMPaused(w1)
        ELSE IF s = "Running" /\ old = "Paused" THEN OnVMResumed(w1)
        ELSE w1

VMSetPaused(w, paused) ==
    IF ~HasValidVM(w) THEN w
    ELSE VMSetState(w, IF paused THEN "Paused" ELSE "Running")

\* Entry of VMManager::Initialize: absent -> Initializing, resources allocated.
VMInitializeBegin(w) ==
    IF w.vmState # "Shutdown" THEN Abort(w, "Initialize: VM is shutdown")
    ELSE OnVMStarting([w EXCEPT !.vmState = "Initializing", !.vmCount = @ + 1])

\* Failure exit of VMManager::Initialize: back to absent, one notification.
VMInitializeFail(w) ==
    OnVMDestroyed([w EXCEPT !.vmState = "Shutdown", !.vmCount = @ - 1])

\* End of VMManager::Shutdown, after the display has been released.
VMShutdownEnd(w) ==
    OnVMDestroyed([w EXCEPT !.vmState = "Shutdown", !.vmCount = @ - 1])

----------------------------------------------------------------------------
(* EmuThread entry points that redirect to the execution thread when       *)
(* called from another thread (t is the calling thread).                   *)

\* setVMPaused without the isOnEmuThread() redirection.
setVMPausedInCaller(w, t, paused) == VMSetPaused(w, paused)

setVMPaused(w, t, paused) ==
    IF t # "emu" THEN PostCmd(w, "setVMPaused", paused)
    ELSE VMSetPaused(w, paused)

\* ScopedVMPause::ScopedVMPause(was_paused)
ScopedVMPauseEnter(w, t, was_paused) ==
    IF ~was_paused THEN setVMPaused(w, t, TRUE) ELSE w

\* ScopedVMPause::~ScopedVMPause()
ScopedVMPauseLeave(w, t, was_paused) ==
    IF was_paused THEN setVMPaused(w, t, FALSE) ELSE w

\* EmuThread::changeDisc; VMManager::ChangeDisc leaves the machine state
\* alone and reports the new disc through Host::OnGameChanged.
changeDisc(w, t) ==
    IF t # "emu" THEN PostCmd(w, "changeDisc", FALSE)
    ELSE IF ~HasValidVM(w) THEN w
    ELSE Emit(w, "onGameChanged")

\* Host::OnSaveStateLoading / OnSaveStateLoaded / OnSaveStateSaved: n signals.
EmitSaveStateSignals(w, n) == [w EXCEPT !.emitted = @ + n]

\* Serial and checksum of the running game (one game is modelled).
GameSerial == "serial"
GameCRC == "crc"

\* VMManager::GetSaveStateFileName: determined by serial, checksum and slot.
GetSaveStateFileName(serial, crc, slot) == <<serial, crc, slot>>

\* VMManager::LoadState / LoadStateFromSlot.  ch = "fail": the file cannot
\* be read; the loading and loaded notifications are given either way.
VMLoadState(w, ch) == EmitSaveStateSignals(w, 2)

\* VMManager::SaveState / SaveStateToSlot.  ch = "fail": the file cannot be
\* written, nothing is notified and the machine is left as it was.
VMSaveState(w, name, ch) ==
    IF ch = "fail" THEN w
    ELSE EmitSaveStateSignals([w EXCEPT !.saveStates = @ \cup {name}], 1)

loadState(w, t, ch) ==
    IF t # "emu" THEN PostCmd(w, "loadState", FALSE)
    ELSE IF ~HasValidVM(w) THEN w
    ELSE VMLoadState(w, ch)

loadStateFromSlot(w, t, slot, ch) ==
    IF t # "emu" THEN PostCmd(w, "loadStateFromSlot", slot)
    ELSE IF ~HasValidVM(w) THEN w
    ELSE VMLoadState(w, ch)

\* saveState shutting the machine down when VMManager::SaveState fails.
saveStateShutdownOnFail(w, t, ch) ==
    IF t # "emu" THEN PostCmd(w, "saveState", FALSE)
    ELSE IF ~HasValidVM(w) THEN w
    ELSE IF ch = "fail" THEN VMSetState(w, "Stopping")
    ELSE VMSaveState(w, <<"file">>, ch)

saveState(w, t, ch) ==
    IF t # "emu" THEN PostCmd(w, "saveState", FALSE)
    ELSE IF ~HasValidVM(w) THEN w
    ELSE VMSaveState(w, <<"file">>, ch)

\* saveStateToSlot writing each state to a file of its own.
saveStateToSlotFreshFile(w, t, slot, ch) ==
    IF t # "emu" THEN PostCmd(w, "saveStateToSlot", slot)
    ELSE IF ~HasValidVM(w) THEN w
    ELSE VMSaveState(w, <<GameSerial, GameCRC, slot, w.emitted>>, ch)

saveStateToSlot(w, t, slot, ch) ==
    IF t # "emu" THEN PostCmd(w, "saveStateToSlot", slot)
    ELSE IF ~HasValidVM(w) THEN w
    ELSE VMSaveState(w, GetSaveStateFileName(GameSerial, GameCRC, slot), ch)

\* GetMTGS().ToggleSoftwareRendering() touches no state kept here.
toggleSoftwareRendering(w, t) ==
    IF t # "emu" THEN PostCmd(w, "toggleSoftwareRendering", FALSE)
    ELSE IF ~HasValidVM(w) THEN w
    ELSE w

\* VMManager::ReloadPatches touches no state kept here.
reloadPatches(w, t) ==
    IF t # "emu" THEN PostCmd(w, "reloadPatches", FALSE)
    ELSE IF ~HasValidVM(w) THEN w
    ELSE w

\* requestDisplaySize without its HasValidVM() test.
requestDisplaySizeUnguarded(w, t) ==
    IF t # "emu" THEN PostCmd(w, "requestDisplaySize", FALSE)
    ELSE Emit(w, "displayResizeRequested")

\* VMManager::RequestDisplaySize ends in Host::RequestResizeHostDisplay.
requestDisplaySize(w, t) ==
    IF t # "emu" THEN PostCmd(w, "requestDisplaySize", FALSE)
    ELSE IF ~HasValidVM(w) THEN w
    ELSE Emit(w, "displayResizeRequested")

\* EmuThread::resetVM; VMManager::Reset keeps the machine state.
resetVM(w, t) ==
    IF t # "emu" THEN PostCmd(w, "resetVM", FALSE) ELSE w

----------------------------------------------------------------------------
(* MainWindow: view switching, notification slots, display handlers.       *)

\* m_display_widget->parent() is non-null
HasParent(widget) == widget.parent # "none"

switchToGameListView(w) ==
    IF (w.mw.widget.present /\ ~HasParent(w.mw.widget)) \/ w.mw.viewIndex = 0 THEN w
    ELSE LET w1 == IF w.mw.m_vm_valid
                   THEN LET w0 == [w EXCEPT !.mw.m_was_focused = w.mw.m_vm_paused]
                        IN  IF ~w.mw.m_vm_paused THEN setVMPaused(w0, "ui", TRUE) ELSE w0
                   ELSE w
         IN  [w1 EXCEPT !.mw.viewIndex = 0]

switchToEmulationView(w) ==
    IF ~w.mw.widget.present \/ ~HasParent(w.mw.widget) \/ w.mw.viewIndex = 1 THEN w
    ELSE IF w.mw.m_vm_valid
         THEN LET w0 == [w EXCEPT !.mw.viewIndex = 1]
              IN  IF w.mw.m_vm_paused /\ ~w.mw.m_was_focused
                  THEN setVMPaused(w0, "ui", FALSE) ELSE w0
         ELSE w

\* updateEmulationActions(starting, running), as the enabled-state it leaves.
updateEmulationActions(w, starting, running) ==
    [w EXCEPT !.mw.actions = IF running THEN "running"
                             ELSE IF starting THEN "starting" ELSE "none"]

onVMStarting(w) == updateEmulationActions([w EXCEPT !.mw.m_vm_valid = TRUE], TRUE, FALSE)

onVMStarted(w) == updateEmulationActions([w EXCEPT !.mw.m_vm_valid = TRUE], TRUE, TRUE)

onVMPaused(w) == [w EXCEPT !.mw.pauseChecked = TRUE, !.mw.m_vm_paused = TRUE]

onVMResumed(w) == [w EXCEPT !.mw.pauseChecked = FALSE, !.mw.m_vm_paused = FALSE]

\* MainWindow::onVMStopped leaving m_vm_valid set.
onVMStoppedKeepValid(w) ==
    switchToGameListView(
        updateEmulationActions([w EXCEPT !.mw.m_vm_paused = FALSE], FALSE, FALSE))

onVMStopped(w) ==
    switchToGameListView(
        updateEmulationActions(
            [w EXCEPT !.mw.m_vm_valid = FALSE, !.mw.m_vm_paused = FALSE], FALSE, FALSE))

\* DisplayContainer::IsNeeded(fullscreen, render_to_main); its body is
\* platform code outside these sources.
IsNeeded(w, fullscreen, render_to_main) ==
    w.containerPlatform /\ (fullscreen \/ ~render_to_main)

destroyDisplayWidget(w) ==
    IF ~w.mw.widget.present THEN w
    ELSE [w EXCEPT !.mw.widget = NoWidget,
                   !.mw.viewIndex = IF HasParent(w.mw.widget) THEN 0 ELSE @,
                   !.deletedWithSurface = @ \/ w.disp.surface]

\* The widget (and container) construction and show calls shared by
\* createDisplay and the recreate path of updateDisplay.
NewDisplayWidget(w, fullscreen, render_to_main, exclusive) ==
    LET contained == IsNeeded(w, fullscreen, render_to_main)
        embedded  == ~fullscreen /\ render_to_main
        widget == [present |-> TRUE,
                   parent |-> IF contained THEN "container"
                              ELSE IF embedded THEN "main" ELSE "none",
                   fs |-> fullscreen /\ ~exclusive /\ ~contained]
        w1 == [w EXCEPT !.mw.widget = widget]
    IN  IF ~fullscreen /\ render_to_main THEN switchToEmulationView(w1) ELSE w1

\* The handler's return value and the release of the emitter's semaphore.
Return(w, result, users) ==
    [w EXCEPT !.rt.done = TRUE, !.rt.handled = TRUE, !.rt.result = result,
              !.rt.users = users]

\* MainWindow::createDisplay.  outcome: "ok", "nowi" (no window info),
\* "nodevice" (CreateRenderDevice failed).
createDisplay(w, fullscreen, render_to_main, exclusive, outcome) ==
    IF fullscreen /\ render_to_main THEN Abort(w, "createDisplay: fullscreen and render to main")
    ELSE IF ~w.disp.exists THEN Return(w, FALSE, w.ctxCurrent)
    ELSE LET w1 == NewDisplayWidget(w, fullscreen, render_to_main, exclusive)
         IN  IF outcome # "ok"
             THEN Return(destroyDisplayWidget(w1), FALSE, w.ctxCurrent)
             ELSE \* CreateRenderDevice makes the context current here;
                  \* DoneRenderContextCurrent releases it before returning.
                  Return([w1 EXCEPT !.disp.device = TRUE, !.disp.surface = TRUE],
                         TRUE, w.ctxCurrent \cup {"ui"})

\* MainWindow::updateDisplay.  outcome: "ok", "nowi", "nosurface".
updateDisplay(w, fullscreen, render_to_main, exclusive, outcome) ==
    LET widget == w.mw.widget
        is_fullscreen == widget.fs
        is_rendering_to_main == ~is_fullscreen /\ HasParent(widget)
        has_container == widget.parent = "container"
        needs_container == IsNeeded(w, fullscreen, render_to_main)
    IN  IF fullscreen = is_fullscreen /\ is_rendering_to_main = render_to_main
        THEN Return([w EXCEPT !.rt.path = "same"], TRUE, w.ctxCurrent)
        ELSE IF ~is_rendering_to_main /\ ~render_to_main /\ ~exclusive
                /\ has_container = needs_container
        THEN Return([w EXCEPT !.mw.widget.fs = fullscreen, !.rt.path = "inplace"],
                    TRUE, w.ctxCurrent)
        ELSE LET w1 == destroyDisplayWidget(
                         [w EXCEPT !.disp.surface = FALSE, !.rt.path = "recreate",
                                   !.g_gs_window_info =
                                       IF @ = "surface" THEN "stale" ELSE @])
                 w2 == NewDisplayWidget(w1, fullscreen, render_to_main, exclusive)
             IN  IF outcome = "nowi"
                 THEN Return(destroyDisplayWidget(w2), FALSE, w.ctxCurrent \cup {"ui"})
                 ELSE IF outcome = "nosurface" THEN Abort(w2, "updateDisplay: recreate surface")
                 ELSE Return([w2 EXCEPT !.disp.surface = TRUE], TRUE,
                             w.ctxCurrent \cup {"ui"})

destroyDisplay(w) == Return(destroyDisplayWidget(w), FALSE, w.ctxCurrent)

----------------------------------------------------------------------------
(* EmuThread: display acquisition, update and release.                     *)

\* The same signal over a Qt::QueuedConnection: posted, and the emitter goes
\* on at once with a default-constructed return value.
EmitQueued(w, kind, fs, rtm) ==
    [w EXCEPT !.uiQueue = Append(@, [kind |-> kind, fs |-> fs, rtm |-> rtm]),
              !.rt = [kind |-> kind, done |-> TRUE, handled |-> FALSE,
                      result |-> FALSE, users |-> {}, path |-> "none"]]

\* The same signal over a Qt::DirectConnection: the slot runs in the emitter.
EmitDirect(w, kind, fs, rtm) ==
    LET w1 == [w EXCEPT !.rt = [kind |-> kind, done |-> FALSE, handled |-> FALSE,
                                result |-> FALSE, users |-> {}, path |-> "none"]]
    IN  IF kind = "create" THEN createDisplay(w1, fs, rtm, FALSE, "ok")
        ELSE IF kind = "update" THEN updateDisplay(w1, fs, rtm, FALSE, "ok")
        ELSE destroyDisplay(w1)

\* A signal connected with Qt::BlockingQueuedConnection: the event is
\* posted to the receiver and the emitter waits until the slot has returned.
EmitBlocking(w, kind, fs, rtm) ==
    [w EXCEPT !.uiQueue = Append(@, [kind |-> kind, fs |-> fs, rtm |-> rtm]),
              !.rt = [kind |-> kind, done |-> FALSE, handled |-> FALSE,
                      result |-> FALSE, users |-> {}, path |-> "none"]]

\* acquireHostDisplay up to the emission of onCreateDisplayRequested.
acquireHostDisplayBegin(w) ==
    [EmitBlocking([w EXCEPT !.disp.exists = TRUE], "create",
                  w.m_is_fullscreen, w.m_is_rendering_to_main)
        EXCEPT !.epc = "create_wait"]

\* releaseHostDisplay emitting onDestroyDisplayRequested without
\* DestroyRenderSurface() and DestroyRenderDevice() before it.
releaseHostDisplayBeginKeepSurface(w) ==
    EmitBlocking([w EXCEPT !.ctxCurrent = @ \ {"gs"}, !.g_gs_window_info = "empty"],
                 "destroy", FALSE, FALSE)

\* releaseHostDisplay up to the emission of onDestroyDisplayRequested.
releaseHostDisplayBegin(w) ==
    EmitBlocking([w EXCEPT !.disp.surface = FALSE, !.disp.device = FALSE,
                           !.ctxCurrent = @ \ {"gs"},
                           !.g_gs_window_info = "empty"],
                 "destroy", FALSE, FALSE)

\* releaseHostDisplay after the handler has returned: s_host_display.reset().
releaseHostDisplayEnd(w) == [w EXCEPT !.rt = NoRT, !.disp = NoDisp]

\* EmuThread::updateDisplay without DoneRenderContextCurrent().
EmuUpdateDisplayBeginKeepContext(w) ==
    [EmitBlocking(w, "update",
                  w.m_is_fullscreen, ~w.m_is_fullscreen /\ w.m_is_rendering_to_main)
        EXCEPT !.epc = "update_wait"]

\* EmuThread::updateDisplay up to the emission of onUpdateDisplayRequested.
EmuUpdateDisplayBegin(w) ==
    [EmitBlocking([w EXCEPT !.ctxCurrent = @ \ {"gs"}], "update",
                  w.m_is_fullscreen, ~w.m_is_fullscreen /\ w.m_is_rendering_to_main)
        EXCEPT !.epc = "update_wait"]

\* EmuThread::updateDisplay after the handler has returned.
EmuUpdateDisplayEnd(w, ch) ==
    IF ~w.rt.result \/ ch = "fail_ctx"
    THEN Abort([w EXCEPT !.rt = NoRT], "updateDisplay: recreate context")
    ELSE [w EXCEPT !.rt = NoRT, !.ctxCurrent = @ \cup {"gs"}, !.epc = "idle"]

\* EmuThread::switchRenderer.  GetMTGS().SwitchRenderer(renderer) reopens GS;
\* reacquire: the new renderer uses another render API, so that the reopen
\* releases the host display and acquires one for the new API.
switchRenderer(w, t, reacquire) ==
    IF t # "emu" THEN PostCmd(w, "switchRenderer", reacquire)
    ELSE IF ~HasValidVM(w) THEN w
    ELSE IF reacquire
         THEN [releaseHostDisplayBegin(w) EXCEPT !.epc = "reopen_release_wait"]
         ELSE w

\* The reopen after Host::ReleaseHostDisplay(): Host::AcquireHostDisplay(api).
reopenAfterRelease(w) ==
    [acquireHostDisplayBegin(releaseHostDisplayEnd(w)) EXCEPT !.epc = "reopen_create_wait"]

\* The reopen after createDisplay has returned; without a display GS cannot
\* be reopened, which is fatal.
reopenAfterCreate(w) ==
    IF ~w.rt.result
    THEN Abort([w EXCEPT !.rt = NoRT, !.disp = NoDisp], "SwitchRenderer: reopen GS")
    ELSE [w EXCEPT !.rt = NoRT, !.ctxCurrent = @ \cup {"gs"},
                   !.g_gs_window_info = "surface", !.epc = "idle"]

----------------------------------------------------------------------------
(* EmuThread: lifecycle commands (t is the calling thread).                *)

\* startVM going on to SetState(Running) although Initialize() returned false.
StartFailedIgnored(w) ==
    [Quit(VMSetState(VMInitializeFail(w), "Running")) EXCEPT
        !.lastStart = "failed", !.epc = "idle"]

\* startVM returning because VMManager::Initialize() returned false.
StartFailed(w) == [VMInitializeFail(w) EXCEPT !.lastStart = "failed", !.epc = "idle"]

\* startVM returning after a successful Initialize() without SetState(Running).
StartSucceededNoRun(w) == [OnVMStarted(w) EXCEPT !.lastStart = "ok", !.epc = "idle"]

StartSucceeded(w) ==
    [Quit(VMSetState(OnVMStarted(w), "Running")) EXCEPT !.lastStart = "ok", !.epc = "idle"]

\* startVM without its pxAssertRel(!VMManager::HasValidVM()).
startVMUnchecked(w, t, fullscreen, ch) ==
    IF t # "emu" THEN PostCmd(w, "startVM", fullscreen)
    ELSE LET w1 == [Emit(w, "onVMStarting") EXCEPT
                        !.m_is_fullscreen = fullscreen,
                        !.m_is_rendering_to_main = ~fullscreen /\ w.cfgRenderToMain,
                        !.lastStart = "inprogress"]
             w2 == VMInitializeBegin(w1)
         IN  IF w2.aborted # "no" THEN w2
             ELSE IF ch = "fail_early" THEN StartFailed(w2)
             ELSE acquireHostDisplayBegin(w2)

\* startVM up to the display request made inside VMManager::Initialize.
\* ch = "fail_early": initialisation fails before a display is requested.
startVM(w, t, fullscreen, ch) ==
    IF t # "emu" THEN PostCmd(w, "startVM", fullscreen)
    ELSE IF HasValidVM(w) THEN Abort(w, "startVM: VM is shut down")
    ELSE LET w1 == [Emit(w, "onVMStarting") EXCEPT
                        !.m_is_fullscreen = fullscreen,
                        !.m_is_rendering_to_main = ~fullscreen /\ w.cfgRenderToMain,
                        !.lastStart = "inprogress"]
             w2 == VMInitializeBegin(w1)
         IN  IF w2.aborted # "no" THEN w2
             ELSE IF ch = "fail_early" THEN StartFailed(w2)
             ELSE acquireHostDisplayBegin(w2)

\* acquireHostDisplay returning nullptr on a late failure without
\* releaseHostDisplay().
startVMAfterCreateNoRelease(w, ch) ==
    LET w0 == [w EXCEPT !.rt = NoRT]
    IN  IF ~w.rt.result THEN StartFailed([w0 EXCEPT !.disp = NoDisp])
        ELSE IF ch \in {"fail_ctx", "fail_late"} THEN StartFailed(w0)
        ELSE StartSucceeded([w0 EXCEPT !.ctxCurrent = @ \cup {"gs"},
                                       !.g_gs_window_info = "surface"])

\* startVM after createDisplay has returned: the rest of acquireHostDisplay
\* and of VMManager::Initialize, then SetState(Running) and quit().
startVMAfterCreate(w, ch) ==
    LET w0 == [w EXCEPT !.rt = NoRT]
    IN  IF ~w.rt.result THEN StartFailed([w0 EXCEPT !.disp = NoDisp])
        ELSE IF ch = "fail_ctx"
             THEN [releaseHostDisplayBegin(w0) EXCEPT !.epc = "initfail_release_wait"]
        ELSE IF ch = "fail_late"
             THEN [releaseHostDisplayBegin([w0 EXCEPT !.ctxCurrent = @ \cup {"gs"}])
                      EXCEPT !.epc = "initfail_release_wait"]
        ELSE StartSucceeded([w0 EXCEPT !.ctxCurrent = @ \cup {"gs"},
                                       !.g_gs_window_info = "surface"])

startVMAfterRelease(w) == StartFailed(releaseHostDisplayEnd(w))

\* shutdownVM without the isOnEmuThread() redirect.
shutdownVMInCaller(w, t, blocking) ==
    IF w.vmState = "Paused" THEN VMSetState(Quit(w), "Stopping")
    ELSE IF w.vmState # "Running" THEN w
    ELSE VMSetState(w, "Stopping")

shutdownVM(w, t, blocking) ==
    IF t # "emu"
    THEN LET w1 == PostCmd(w, "shutdownVM", blocking)
         IN  \* while (VMManager::HasValidVM()) processEvents(): the loop is
             \* entered only when a machine is loaded at the call.
             IF blocking /\ HasValidVM(w) THEN [w1 EXCEPT !.uimode = "shutdown_wait"]
             ELSE w1
    ELSE IF w.vmState = "Paused" THEN VMSetState(Quit(w), "Stopping")
    ELSE IF w.vmState # "Running" THEN w
    ELSE VMSetState(w, "Stopping")

stopInThreadEnd(w) == [Quit(w) EXCEPT !.m_shutdown_flag = TRUE, !.epc = "idle"]

\* stopInThread up to the display release made inside destroyVM.
stopInThread(w) ==
    IF HasValidVM(w)
    THEN [releaseHostDisplayBegin(w) EXCEPT !.epc = "stop_destroy_wait"]
    ELSE stopInThreadEnd(w)

stopInThreadAfterDestroy(w) == stopInThreadEnd(VMShutdownEnd(releaseHostDisplayEnd(w)))

setFullscreen(w, t, fullscreen) ==
    IF t # "emu" THEN PostCmd(w, "setFullscreen", fullscreen)
    ELSE IF ~HasValidVM(w) \/ w.m_is_fullscreen = fullscreen THEN w
    ELSE EmuUpdateDisplayBegin([w EXCEPT !.m_is_fullscreen = fullscreen])

toggleFullscreen(w, t) ==
    IF t # "emu" THEN PostCmd(w, "toggleFullscreen", FALSE)
    ELSE setFullscreen(w, "emu", ~w.m_is_fullscreen)

checkForSettingChanges(w) ==
    IF HasValidVM(w) /\ ~w.m_is_fullscreen /\ w.m_is_rendering_to_main # w.cfgRenderToMain
    THEN EmuUpdateDisplayBegin([w EXCEPT !.m_is_rendering_to_main = w.cfgRenderToMain])
    ELSE w

applySettings(w, t) ==
    IF t # "emu" THEN PostCmd(w, "applySettings", FALSE)
    ELSE checkForSettingChanges(
            [w EXCEPT !.appliedSetting = IF w.cfgRenderToMain THEN "on" ELSE "off"])

\* The hotkey handlers without their if (!pressed).
HotkeyOnPress(w, hk, pressed) ==
    IF hk = "TogglePause" THEN setVMPaused(w, "emu", w.vmState # "Paused")
    ELSE toggleFullscreen(w, "emu")

\* The hotkey handlers, run by InputManager::InvokeEvents on the thread that
\* delivers the key: "TogglePause" and "ToggleFullscreen" act when released.
Hotkey(w, hk, pressed) ==
    IF pressed THEN w
    ELSE IF hk = "TogglePause" THEN setVMPaused(w, "emu", w.vmState # "Paused")
    ELSE toggleFullscreen(w, "emu")

\* EmuThread::onDisplayWindowKeyEvent for a key bound to the hotkey key.hk:
\* InputManager::InvokeEvents calls the handler with the edge.
onDisplayWindowKeyEvent(w, key) == Hotkey(w, key.hk, key.pressed)

\* The slot invoked for a queued command, on the execution thread.
RunCmd(w, cmd, ch) ==
    CASE cmd.op = "startVM" -> startVM(w, "emu", cmd.arg, ch)
      [] cmd.op = "setVMPaused" -> setVMPaused(w, "emu", cmd.arg)
      [] cmd.op = "shutdownVM" -> shutdownVM(w, "emu", cmd.arg)
      [] cmd.op = "stopInThread" -> stopInThread(w)
      [] cmd.op = "setFullscreen" -> setFullscreen(w, "emu", cmd.arg)
      [] cmd.op = "toggleFullscreen" -> toggleFullscreen(w, "emu")
      [] cmd.op = "applySettings" -> applySettings(w, "emu")
      [] cmd.op = "changeDisc" -> changeDisc(w, "emu")
      [] cmd.op = "loadState" -> loadState(w, "emu", ch)
      [] cmd.op = "loadStateFromSlot" -> loadStateFromSlot(w, "emu", cmd.arg, ch)
      [] cmd.op = "saveState" -> saveState(w, "emu", ch)
      [] cmd.op = "saveStateToSlot" -> saveStateToSlot(w, "emu", cmd.arg, ch)
      [] cmd.op = "toggleSoftwareRendering" -> toggleSoftwareRendering(w, "emu")
      [] cmd.op = "switchRenderer" -> switchRenderer(w, "emu", cmd.arg)
      [] cmd.op = "reloadPatches" -> reloadPatches(w, "emu")
      [] cmd.op = "requestDisplaySize" -> requestDisplaySize(w, "emu")
      [] cmd.op = "resetVM" -> resetVM(w, "emu")
      [] cmd.op = "onDisplayWindowKeyEvent" -> onDisplayWindowKeyEvent(w, cmd.arg)

\* The rest of a handler, once the display round-trip it waits for is done.
ResumeCmd(w, ch) ==
    CASE w.epc = "create_wait" -> startVMAfterCreate(w, ch)
      [] w.epc = "initfail_release_wait" -> startVMAfterRelease(w)
      [] w.epc = "stop_destroy_wait" -> stopInThreadAfterDestroy(w)
      [] w.epc = "update_wait" -> EmuUpdateDisplayEnd(w, ch)
      [] w.epc = "reopen_release_wait" -> reopenAfterRelease(w)
      [] w.epc = "reopen_create_wait" -> reopenAfterCreate(w)
      [] w.epc = "stopping_destroy_wait" ->
            \* executeVM, case Stopping: destroyVM() done, then processEvents()
            [VMShutdownEnd(releaseHostDisplayEnd(w)) EXCEPT
                !.epc = "idle", !.eloc = "stopping_pe", !.ebatch = Len(w.emuQueue)]

----------------------------------------------------------------------------
(* Execution thread: EmuThread::run and EmuThread::executeVM.              *)

Emu(w) == aborted = "no" /\ Commit([w EXCEPT !.actor = "emu"])

UI(w) == aborted = "no" /\ Commit([w EXCEPT !.actor = "ui"])

\* run(): the event loop is created and m_started_semaphore released.
EmuBoot ==
    /\ eloc = "boot"
    /\ Emu([W EXCEPT !.eloc = "boot2"])

\* run(): input sources, poll timer created and started.
EmuBootTimer ==
    /\ eloc = "boot2"
    /\ Emu([startBackgroundControllerPollTimer(W) EXCEPT !.eloc = "loop"])

\* run(): one evaluation of the while condition and the if inside it.
RunLoop(w) ==
    IF w.m_shutdown_flag
    THEN [stopBackgroundControllerPollTimer(w) EXCEPT !.eloc = "exited"]
    ELSE IF ~HasValidVM(w) THEN [w EXCEPT !.eloc = "idle_exec", !.exitFlag = FALSE]
    ELSE [w EXCEPT !.eloc = "switch"]

EmuRunLoop ==
    /\ eloc = "loop"
    /\ Emu(RunLoop(W))

\* m_event_loop->exec(): between two processEvents() calls.
EmuExecReturn ==
    /\ eloc \in {"idle_exec", "paused_exec"} /\ ebatch = 0 /\ epc = "idle"
    /\ exitFlag
    /\ Emu([W EXCEPT !.eloc = IF eloc = "idle_exec" THEN "loop" ELSE "switch"])

\* Variant of EmuExecBatch: exec() delivers posted commands only in the
\* paused wait, not in the idle wait of run().
EmuExecBatchPausedOnly ==
    /\ eloc = "paused_exec" /\ ebatch = 0 /\ epc = "idle"
    /\ ~exitFlag /\ emuQueue # <<>>
    /\ Emu([W EXCEPT !.ebatch = Len(emuQueue)])

EmuExecBatch ==
    /\ eloc \in {"idle_exec", "paused_exec"} /\ ebatch = 0 /\ epc = "idle"
    /\ ~exitFlag /\ emuQueue # <<>>
    /\ Emu([W EXCEPT !.ebatch = Len(emuQueue)])

\* The next queued command of the current processEvents() call.
NextCmd(w) == Head(w.emuQueue)

Dequeue(w) ==
    [w EXCEPT !.emuQueue = Tail(@), !.ebatch = @ - 1,
              !.executedLog = Append(@, NextCmd(w).seq), !.lastOp = NextCmd(w).op]

StartChoices == {"ok", "fail_early"}

\* Outcomes of a save-state read or write.
SaveChoices == {"ok", "fail"}

DispatchChoices(cmd) ==
    IF cmd.op = "startVM" THEN StartChoices
    ELSE IF cmd.op \in {"loadState", "loadStateFromSlot", "saveState", "saveStateToSlot"}
    THEN SaveChoices
    ELSE {"ok"}

ResumeChoices == {"ok", "fail_ctx", "fail_late"}

\* A dispatch that does not wait for the handler in progress, as a
\* Host::PumpMessagesOnCPUThread() call made inside a handler would be.
EmuDispatchReentrant ==
    /\ eloc \in {"idle_exec", "paused_exec", "running_pe", "stopping_pe"}
    /\ ebatch > 0
    /\ \E ch \in DispatchChoices(NextCmd(W)) :
          Emu(RunCmd(Dequeue(W), NextCmd(W), ch))

EmuDispatch ==
    /\ eloc \in {"idle_exec", "paused_exec", "running_pe", "stopping_pe"}
    /\ ebatch > 0 /\ epc = "idle"
    /\ \E ch \in DispatchChoices(NextCmd(W)) :
          Emu(RunCmd(Dequeue(W), NextCmd(W), ch))

EmuResume ==
    /\ epc # "idle" /\ rt.done
    /\ \E ch \in (IF epc \in {"create_wait", "update_wait"} /\ rt.result
                  THEN (IF epc = "update_wait" THEN {"ok", "fail_ctx"} ELSE ResumeChoices)
                  ELSE {"ok"}) :
          Emu(ResumeCmd(W, ch))

\* executeVM() whose Running case goes to VMManager::Execute() without
\* m_event_loop->processEvents().
ExecuteSwitchNoDrain(w) ==
    CASE w.vmState = "Initializing" -> Abort(w, "executeVM: starting state")
      [] w.vmState = "Paused" -> [w EXCEPT !.eloc = "paused_exec", !.exitFlag = FALSE]
      [] w.vmState = "Running" -> [w EXCEPT !.eloc = "running_pe", !.ebatch = 0]
      [] w.vmState = "Stopping" ->
            [releaseHostDisplayBegin(w) EXCEPT !.eloc = "stopping_destroy",
                                               !.epc = "stopping_destroy_wait"]
      [] OTHER -> [w EXCEPT !.eloc = "switch_spin"]

\* executeVM(): the switch on VMManager::GetState().
ExecuteSwitch(w) ==
    CASE w.vmState = "Initializing" -> Abort(w, "executeVM: starting state")
      [] w.vmState = "Paused" -> [w EXCEPT !.eloc = "paused_exec", !.exitFlag = FALSE]
      [] w.vmState = "Running" -> [w EXCEPT !.eloc = "running_pe", !.ebatch = Len(w.emuQueue)]
      [] w.vmState = "Stopping" ->
            [releaseHostDisplayBegin(w) EXCEPT !.eloc = "stopping_destroy",
                                               !.epc = "stopping_destroy_wait"]
      [] OTHER -> \* no case matches: for (;;) re-evaluates the switch forever
            [w EXCEPT !.eloc = "switch_spin"]

EmuSwitch ==
    /\ eloc = "switch"
    /\ Emu(ExecuteSwitch(W))

\* executeVM(), case Running: processEvents() has returned, VMManager::Execute().
EmuExecute ==
    /\ eloc = "running_pe" /\ ebatch = 0 /\ epc = "idle"
    /\ Emu([W EXCEPT !.eloc = "switch"])

\* executeVM(), case Stopping: processEvents() has returned, return.
EmuStoppingReturn ==
    /\ eloc = "stopping_pe" /\ ebatch = 0 /\ epc = "idle"
    /\ Emu([W EXCEPT !.eloc = "loop"])

----------------------------------------------------------------------------
(* Interactive thread.                                                     *)

\* g_emu_thread is not null (it is set by start() and never reset).
ControllerExists(w) == w.nthreads > 0

\* start() without its pxAssertRel(!g_emu_thread).
startUnchecked(w) ==
    [w EXCEPT !.uimode = "start_wait", !.eloc = "boot", !.nthreads = @ + 1]

\* EmuThread::start() up to m_started_semaphore.acquire().
start(w) ==
    IF ControllerExists(w) THEN Abort(w, "start: Emu thread does not exist")
    ELSE [w EXCEPT !.uimode = "start_wait", !.eloc = "boot", !.nthreads = @ + 1]

UIStartThread ==
    /\ uimode = "prestart"
    /\ UI(start(W))

\* EmuThread::start() going on without m_started_semaphore.acquire().
UIStartFinishNoAcquire ==
    /\ uimode = "start_wait"
    /\ UI([W EXCEPT !.uimode = "main"])

\* EmuThread::start() after the semaphore: moveToThread, connectVMThreadSignals.
UIStartFinish ==
    /\ uimode = "start_wait" /\ eloc \notin {"none", "boot"}
    /\ UI([W EXCEPT !.uimode = "main"])

\* The slot a MainWindow event is delivered to.
HandleUIEvent(w, ev, exclusive, outcome) ==
    CASE ev.kind = "onVMStarting" -> onVMStarting(w)
      [] ev.kind = "onVMStarted" -> onVMStarted(w)
      [] ev.kind = "onVMPaused" -> onVMPaused(w)
      [] ev.kind = "onVMResumed" -> onVMResumed(w)
      [] ev.kind = "onVMStopped" -> onVMStopped(w)
      [] ev.kind = "create" -> createDisplay(w, ev.fs, ev.rtm, exclusive, outcome)
      [] ev.kind = "update" -> updateDisplay(w, ev.fs, ev.rtm, exclusive, outcome)
      [] ev.kind = "destroy" -> destroyDisplay(w)
      [] ev.kind = "onGameChanged" -> w          \* window title, save state menus
      [] ev.kind = "displayResizeRequested" -> w \* window geometry

Outcomes(ev) ==
    IF ev.kind = "create" THEN {"ok", "nowi", "nodevice"}
    ELSE IF ev.kind = "update" THEN {"ok", "nowi", "nosurface"}
    ELSE {"ok"}

\* One event delivered by the main loop, or by the processEvents() call of
\* a wait loop (blocking shutdownVM, stop).
UIDispatch ==
    /\ uimode \in {"main", "shutdown_wait", "stop_wait"}
    /\ uiQueue # <<>>
    /\ LET ev == Head(uiQueue)
       IN  \E exclusive \in (IF ev.kind \in {"create", "update"} /\ ev.fs
                             THEN BOOLEAN ELSE {FALSE}),
              outcome \in Outcomes(ev) :
                UI(HandleUIEvent([W EXCEPT !.uiQueue = Tail(@)], ev, exclusive, outcome))

UserOp(w) == [w EXCEPT !.nuser = @ + 1]

CanUserAct == uimode = "main" /\ nuser < MaxUserOps

\* onStartBIOSActionTriggered / onStartFileActionTriggered
UserStart ==
    /\ CanUserAct /\ mw.actions = "none"
    /\ \E fullscreen \in BOOLEAN : UI(startVM(UserOp(W), "ui", fullscreen, "ok"))

\* actionPause toggled
UserPause ==
    /\ CanUserAct /\ mw.actions = "running"
    /\ UI(setVMPaused([UserOp(W) EXCEPT !.mw.pauseChecked = ~@], "ui", ~mw.pauseChecked))

\* actionPowerOff triggered
UserPowerOff ==
    /\ CanUserAct /\ mw.actions = "running"
    /\ UI(shutdownVM(UserOp(W), "ui", FALSE))

\* actionFullscreen triggered
UserToggleFullscreen ==
    /\ CanUserAct /\ mw.actions \in {"starting", "running"}
    /\ UI(toggleFullscreen(UserOp(W), "ui"))

\* the RenderToMainWindow setting changed in the settings dialog
UserChangeSetting ==
    /\ CanUserAct
    /\ UI(applySettings([UserOp(W) EXCEPT !.cfgRenderToMain = ~@], "ui"))

\* MainWindow::onChangeDiscFromFileActionTriggered; cancelled: the file
\* dialog returned an empty name.
onChangeDiscFromFileActionTriggered(w, cancelled) ==
    LET was_paused == w.mw.m_vm_paused
        w1 == ScopedVMPauseEnter(w, "ui", was_paused)
        w2 == IF cancelled THEN w1 ELSE changeDisc(w1, "ui")
    IN  ScopedVMPauseLeave(w2, "ui", was_paused)

\* actionChangeDiscFromFile triggered
UserChangeDisc ==
    /\ CanUserAct /\ mw.actions = "running"
    /\ \E cancelled \in BOOLEAN :
          UI(onChangeDiscFromFileActionTriggered(UserOp(W), cancelled))

\* closeEvent: shutdownVM(true, true)
UIClose ==
    /\ CanUserAct
    /\ UI(shutdownVM(UserOp(W), "ui", TRUE))

\* shutdownVM(blocking): the wait loop's condition has become false.
UIShutdownWaitExit ==
    /\ uimode = "shutdown_wait" /\ ~HasValidVM(W)
    /\ UI([W EXCEPT !.uimode = "main"])

\* EmuThread::stop() up to its wait loop (t is the calling thread).
stop(w, t) ==
    IF ~ControllerExists(w) THEN Abort(w, "stop: Emu thread exists")
    ELSE IF t = "emu" THEN Abort(w, "stop: Not called on the emu thread")
    ELSE [PostCmd(w, "stopInThread", FALSE) EXCEPT !.uimode = "stop_wait"]

UIStop ==
    /\ CanUserAct
    /\ UI(stop(UserOp(W), "ui"))

\* EmuThread::stop(): isRunning() has become false.
UIStopWaitExit ==
    /\ uimode = "stop_wait" /\ eloc = "exited"
    /\ UI([W EXCEPT !.uimode = "done"])

Next ==
    \/ EmuBoot \/ EmuBootTimer \/ EmuRunLoop \/ EmuExecReturn \/ EmuExecBatch
    \/ EmuDispatch \/ EmuResume \/ EmuSwitch \/ EmuExecute \/ EmuStoppingReturn
    \/ UIStartThread \/ UIStartFinish \/ UIDispatch
    \/ UserStart \/ UserPause \/ UserPowerOff \/ UserToggleFullscreen
    \/ UserChangeSetting \/ UserChangeDisc \/ UIClose \/ UIShutdownWaitExit
    \/ UIStop \/ UIStopWaitExit

Spec == Init /\ [][Next]_vars

\* The remaining menu commands of the main window, by the EmuThread slot
\* they call.
MenuOps ==
    {"loadState", "loadStateFromSlot", "saveState", "saveStateToSlot",
     "toggleSoftwareRendering", "switchRenderer", "reloadPatches",
     "requestDisplaySize", "resetVM", "changeDisc"}

\* The menu entry of op is enabled (updateEmulationActions, loadSaveStateSlot).
MenuEnabled(w, op) ==
    CASE op \in {"loadState", "loadStateFromSlot"} -> w.mw.m_vm_valid
      [] op \in {"saveState", "saveStateToSlot", "resetVM", "changeDisc"} ->
            w.mw.actions = "running"
      [] op = "requestDisplaySize" -> w.mw.actions \in {"starting", "running"}
      [] OTHER -> TRUE

Invoke(w, t, op, slot) ==
    CASE op = "loadState" -> loadState(w, t, "ok")
      [] op = "loadStateFromSlot" -> loadStateFromSlot(w, t, slot, "ok")
      [] op = "saveState" -> saveState(w, t, "ok")
      [] op = "saveStateToSlot" -> saveStateToSlot(w, t, slot, "ok")
      [] op = "toggleSoftwareRendering" -> toggleSoftwareRendering(w, t)
      [] op = "switchRenderer" -> switchRenderer(w, t, FALSE)
      [] op = "reloadPatches" -> reloadPatches(w, t)
      [] op = "requestDisplaySize" -> requestDisplaySize(w, t)
      [] op = "resetVM" -> resetVM(w, t)
      [] op = "changeDisc" -> changeDisc(w, t)

\* Two of the slots 1..NUM_SAVE_STATE_SLOTS offered by the save-state menus.
SaveSlots == {1, 3}

UserCommand ==
    /\ CanUserAct
    /\ \E op \in MenuOps :
          \E slot \in (IF op = "saveStateToSlot" THEN SaveSlots ELSE {3}) :
             MenuEnabled(W, op) /\ UI(Invoke(UserOp(W), "ui", op, slot))

\* A key bound to a hotkey is released over the display widget: the
\* widget's windowKeyEvent is queued to EmuThread::onDisplayWindowKeyEvent.
UserKey ==
    /\ CanUserAct /\ mw.widget.present
    /\ \E hk \in {"TogglePause", "ToggleFullscreen"} :
          UI(PostCmd(UserOp(W), "onDisplayWindowKeyEvent",
                     [hk |-> hk, pressed |-> FALSE]))

\* The protocol driven by starts, power-offs, window closes, the menu
\* commands and the hotkeys (pause and fullscreen then come from the hotkeys).
NextCmds ==
    \/ EmuBoot \/ EmuBootTimer \/ EmuRunLoop \/ EmuExecReturn \/ EmuExecBatch
    \/ EmuDispatch \/ EmuResume \/ EmuSwitch \/ EmuExecute \/ EmuStoppingReturn
    \/ UIStartThread \/ UIStartFinish \/ UIDispatch
    \/ UserStart \/ UserPowerOff \/ UserCommand \/ UserKey
    \/ UIClose \/ UIShutdownWaitExit

SpecCmds == Init /\ [][NextCmds]_vars

\* A key bound to a hotkey is pressed or released over the display widget.
UserKeyEdge ==
    /\ CanUserAct /\ mw.widget.present
    /\ \E hk \in {"TogglePause", "ToggleFullscreen"}, pressed \in BOOLEAN :
          UI(PostCmd(UserOp(W), "onDisplayWindowKeyEvent",
                     [hk |-> hk, pressed |-> pressed]))

NextKeys ==
    \/ EmuBoot \/ EmuBootTimer \/ EmuRunLoop \/ EmuExecReturn \/ EmuExecBatch
    \/ EmuDispatch \/ EmuResume \/ EmuSwitch \/ EmuExecute \/ EmuStoppingReturn
    \/ UIStartThread \/ UIStartFinish \/ UIDispatch
    \/ UserStart \/ UserPowerOff \/ UserKeyEdge

SpecKeys == Init /\ [][NextKeys]_vars

----------------------------------------------------------------------------
(* Display mode changes: fullscreen, the RenderToMainWindow setting and    *)
(* renderer switches.                                                      *)

\* Debug > Switch Renderer; the menu lists renderers of every render API.
UserSwitchRenderer ==
    /\ CanUserAct
    /\ \E reacquire \in BOOLEAN : UI(switchRenderer(UserOp(W), "ui", reacquire))

NextDisplay ==
    \/ EmuBoot \/ EmuBootTimer \/ EmuRunLoop \/ EmuExecReturn \/ EmuExecBatch
    \/ EmuDispatch \/ EmuResume \/ EmuSwitch \/ EmuExecute \/ EmuStoppingReturn
    \/ UIStartThread \/ UIStartFinish \/ UIDispatch
    \/ UserStart \/ UserPowerOff \/ UserToggleFullscreen \/ UserChangeSetting
    \/ UserSwitchRenderer

SpecDisplay == Init /\ [][NextDisplay]_vars

----------------------------------------------------------------------------
(* View switching between the game list and the emulation view.            *)

\* View > Game List / Game Grid: switchToGameListView().
UserViewGameList ==
    /\ CanUserAct
    /\ UI(switchToGameListView(UserOp(W)))

\* View > System Display: onViewSystemDisplayTriggered.
UserViewSystemDisplay ==
    /\ CanUserAct /\ mw.actions \in {"starting", "running"}
    /\ UI(IF mw.m_vm_valid THEN switchToEmulationView(UserOp(W)) ELSE UserOp(W))

NextViews ==
    \/ EmuBoot \/ EmuBootTimer \/ EmuRunLoop \/ EmuExecReturn \/ EmuExecBatch
    \/ EmuDispatch \/ EmuResume \/ EmuSwitch \/ EmuExecute \/ EmuStoppingReturn
    \/ UIStartThread \/ UIStartFinish \/ UIDispatch
    \/ UserStart \/ UserPause \/ UserPowerOff
    \/ UserViewGameList \/ UserViewSystemDisplay

SpecViews == Init /\ [][NextViews]_vars

----------------------------------------------------------------------------
(* The background controller poll.                                         *)

\* EmuThread::doBackgroundControllerPoll: InputManager::PollSources().
doBackgroundControllerPoll(w) == [w EXCEPT !.lastOp = "doBackgroundControllerPoll"]

\* The poll timer times out while the execution thread dispatches events.
EmuPoll ==
    /\ timerActive
    /\ eloc \in {"idle_exec", "paused_exec", "running_pe", "stopping_pe"} /\ epc = "idle"
    /\ Emu(doBackgroundControllerPoll(W))

NextPoll ==
    \/ EmuBoot \/ EmuBootTimer \/ EmuRunLoop \/ EmuExecReturn \/ EmuExecBatch
    \/ EmuDispatch \/ EmuResume \/ EmuSwitch \/ EmuExecute \/ EmuStoppingReturn
    \/ UIStartThread \/ UIStartFinish \/ UIDispatch
    \/ UserStart \/ UserPause \/ UserPowerOff \/ UIStop \/ UIStopWaitExit
    \/ EmuPoll

SpecPoll == Init /\ [][NextPoll]_vars

----------------------------------------------------------------------------
(* start() and stop() called out of turn.                                  *)

\* start() called again, while running or after stop() has returned.
CallStartAgain ==
    /\ uimode \in {"main", "done"} /\ nuser < MaxUserOps
    /\ UI(start(UserOp(W)))

\* stop() called before any start().
CallStopNoThread ==
    /\ uimode = "prestart"
    /\ UI(stop(W, "ui"))

\* stop() called by a slot running on the execution thread.
CallStopOnEmuThread ==
    /\ eloc \in {"idle_exec", "paused_exec", "running_pe"} /\ ebatch > 0 /\ epc = "idle"
    /\ Emu(stop(W, "emu"))

NextCalls ==
    \/ EmuBoot \/ EmuBootTimer \/ EmuRunLoop \/ EmuExecReturn \/ EmuExecBatch
    \/ EmuDispatch \/ EmuResume \/ EmuSwitch \/ EmuExecute \/ EmuStoppingReturn
    \/ UIStartThread \/ UIStartFinish \/ UIDispatch
    \/ UserStart \/ UserPause \/ UserPowerOff \/ UIStop \/ UIStopWaitExit
    \/ CallStartAgain \/ CallStopNoThread \/ CallStopOnEmuThread

SpecCalls == Init /\ [][NextCalls]_vars

\* The threads are scheduled and the wait loops keep polling; the user is
\* not obliged to do anything.
EmuNext ==
    \/ EmuBoot \/ EmuBootTimer \/ EmuRunLoop \/ EmuExecReturn \/ EmuExecBatch
    \/ EmuDispatch \/ EmuResume \/ EmuSwitch \/ EmuExecute \/ EmuStoppingReturn

UIService == UIStartFinish \/ UIDispatch \/ UIShutdownWaitExit \/ UIStopWaitExit

FairSpec == Spec /\ WF_vars(EmuNext) /\ WF_vars(UIService)

----------------------------------------------------------------------------
(* Properties.                                                             *)

Stopped == Note("onVMStopped")

\* Number of machine-stopped notifications queued for the main window.
StoppedQueued(q) == Cardinality({i \in DOMAIN q : q[i] = Stopped})

\* C1: stop() called while a blocking display round-trip is pending, or
\* whose own teardown issues one, returns: the interactive thread services
\* the round-trip from its polling loop and the execution thread exits.
C1_StopWithRoundTripReturns ==
    (uimode = "stop_wait" /\ rt.kind # "none") ~> (uimode = "done" \/ aborted # "no")

\* C2: in whatever machine state the stop handler finds the execution thread
\* (no machine, Running, Paused), the machine is torn down, run() exits and
\* stop() returns with no machine loaded: while stop() is waiting, a step
\* that brings its return closer is always possible.
C2_StopNeverStuck ==
    (uimode = "stop_wait" /\ aborted = "no") => ENABLED Next

\* C3: a display request returns to its emitter only after the MainWindow
\* handler has run to completion on the interactive thread, and the emitter
\* then sees the handler's result (the widget, or null).
C3_RoundTripSynchronous ==
    [][(rt.kind # "none" /\ actor' = "emu" /\ rt' # rt)
          => /\ rt.done /\ rt.handled
             /\ (rt.kind \in {"create", "update"} => (rt.result <=> mw.widget.present))]_vars

C3_Witness == rt.kind = "create" /\ rt.handled /\ rt.result /\ epc = "create_wait"

\* C4: the execution thread executes the commands submitted from the
\* interactive thread in the order of their submission.
C4_CommandsInSubmissionOrder ==
    \A i \in DOMAIN executedLog : executedLog[i] = i

C4_Witness == Len(executedLog) >= 3

C7_FailedStartLeavesNothing ==
    /\ [](lastStart = "inprogress" => vmState # "Running")
    /\ [][(lastStart = "inprogress" /\ lastStart' = "failed")
             => /\ vmState' = "Shutdown" /\ vmCount' = 0 /\ ~disp'.exists
                /\ eloc' = eloc /\ eloc \in {"idle_exec", "stopping_pe"}
                /\ exitFlag' = exitFlag
                /\ StoppedQueued(uiQueue') = StoppedQueued(uiQueue) + 1]_vars

C7_Witness ==
    lastStart = "failed" /\ vmState = "Shutdown" /\ eloc = "idle_exec" /\ ~mw.widget.present
        /\ StoppedQueued(uiQueue) = 1

C9_StateChangedOnlyByEmuThread ==
    [][vmState' # vmState => actor' = "emu"]_vars

C9_Witness ==
    /\ actor = "ui" /\ vmState = "Running" /\ emuQueue # <<>>
    /\ emuQueue[Len(emuQueue)].op = "setVMPaused"

\* C10: the display widget is created, replaced and destroyed only by steps
\* of the interactive thread.
C10_WidgetChangedOnlyByUIThread ==
    [][mw.widget' # mw.widget => actor' = "ui"]_vars

C10_Witness == rt.kind = "destroy" /\ rt.handled /\ ~mw.widget.present /\ actor = "ui"

\* Number of display-create requests queued for the main window.
CreatesQueued(q) == Cardinality({i \in DOMAIN q : q[i].kind = "create"})

\* The step is the delivery of the queued command op to its slot.
DispatchOf(op) == executedLog' # executedLog /\ Head(emuQueue).op = op

\* C11: a start command found with no machine loaded whose initialisation
\* succeeds ends with the state Running and the event wait left (quit), so
\* that the thread goes on to step the machine; a display-create request is
\* issued only by the step that begins a start, one per start, and the
\* start succeeds only after that request has been handled.
C11_SuccessfulStart ==
    [][/\ ((lastStart = "inprogress" /\ lastStart' = "ok")
            => /\ vmState' = "Running" /\ vmCount' = 1 /\ exitFlag'
               /\ rt.kind = "create" /\ rt.handled /\ rt.result)
       /\ (CreatesQueued(uiQueue') > CreatesQueued(uiQueue)
            => /\ DispatchOf("startVM") /\ vmState = "Shutdown"
               /\ lastStart # "inprogress" /\ lastStart' = "inprogress"
               /\ CreatesQueued(uiQueue) = 0 /\ CreatesQueued(uiQueue') = 1)]_vars

C11_Witness ==
    lastStart = "ok" /\ vmState = "Running" /\ eloc = "running_pe" /\ mw.widget.present

\* C12: with the machine Running, a pause command makes the state Paused
\* and the poll timer active; the resume command that follows makes the
\* state Running again, the timer inactive, and quits the paused wait.
C12_PauseResume ==
    [][/\ ((DispatchOf("setVMPaused") /\ Head(emuQueue).arg /\ vmState = "Running")
            => vmState' = "Paused" /\ timerActive')
       /\ ((DispatchOf("setVMPaused") /\ ~Head(emuQueue).arg /\ vmState = "Paused")
            => vmState' = "Running" /\ ~timerActive' /\ exitFlag')]_vars

C12_Witness ==
    /\ vmState = "Running" /\ eloc = "paused_exec" /\ exitFlag /\ ~timerActive
    /\ Len(executedLog) >= 3

\* The commands that test VMManager::HasValidVM() before doing anything.
GuardedOps ==
    {"loadStateFromSlot", "loadState", "saveState", "saveStateToSlot", "changeDisc",
     "reloadPatches", "switchRenderer", "toggleSoftwareRendering",
     "requestDisplaySize", "setFullscreen", "toggleFullscreen"}

\* The step delivers a guarded command (setFullscreen also through the
\* fullscreen hotkey) to the execution thread.
DispatchOfGuarded ==
    /\ executedLog' # executedLog
    /\ \/ Head(emuQueue).op \in GuardedOps
       \/ (Head(emuQueue).op = "onDisplayWindowKeyEvent"
             /\ Head(emuQueue).arg.hk = "ToggleFullscreen")

\* C13: a guarded command executed by the execution thread when no machine
\* is loaded emits no notification or display request and changes neither
\* the machine state nor the display mode.
C13_NoMachineNoOp ==
    [][(DispatchOfGuarded /\ vmState = "Shutdown")
          => /\ uiQueue' = uiQueue /\ emitted' = emitted /\ rt' = rt
             /\ vmState' = vmState /\ vmCount' = vmCount
             /\ m_is_fullscreen' = m_is_fullscreen
             /\ m_is_rendering_to_main' = m_is_rendering_to_main
             /\ disp' = disp /\ mw' = mw /\ timerActive' = timerActive
             /\ exitFlag' = exitFlag /\ epc' = epc]_vars

C13_Witness ==
    /\ lastOp = "requestDisplaySize" /\ lastStart = "failed" /\ nuser = 2
    /\ vmState = "Shutdown" /\ emitted = 0

\* The display widget sits in the main window's container (mainContainer).
Embedded(widget) == widget.present /\ widget.parent = "main"

\* The step is MainWindow::updateDisplay run to its return.
UpdateHandled == rt.kind = "update" /\ ~rt.handled /\ rt'.handled

\* C14: a display update takes the in-place path only when the surface is
\* not embedded in the main window before and after it, and every update
\* whose request changes the embedding status destroys the widget and
\* surface and recreates them.
C14_UpdatePath ==
    [][UpdateHandled
          => /\ (rt'.path = "inplace"
                  => /\ ~Embedded(mw.widget) /\ ~Embedded(mw'.widget)
                     /\ ~Head(uiQueue).rtm)
             /\ (Embedded(mw.widget) # Head(uiQueue).rtm => rt'.path = "recreate")]_vars

\* C15: when display creation fails at any step (no widget returned, the
\* render context cannot be made current, device or overlay initialisation
\* fails) the start ends with no host display object, no display widget and
\* no current context, and the state goes from Initializing back to absent
\* without having been Running.
C15_FailedCreateLeavesNothing ==
    /\ [](epc = "initfail_release_wait"
            => vmState = "Initializing" /\ lastStart = "inprogress")
    /\ [][(lastStart = "inprogress" /\ lastStart' = "failed" /\ rt.kind # "none")
             => /\ vmState = "Initializing" /\ vmState' = "Shutdown"
                /\ disp' = NoDisp /\ rt' = NoRT /\ ctxCurrent' = {}
                /\ ~mw'.widget.present]_vars

C15_Witness ==
    /\ epc = "initfail_release_wait" /\ rt.kind = "destroy" /\ rt.handled
    /\ ~mw.widget.present /\ vmState = "Initializing"

\* C16: a display update that fails aborts only that transition: the
\* process keeps running, the machine stays loaded, and the widget and
\* surface that existed before the update are still there.
C16_FailedUpdateRecovers ==
    /\ [](aborted \notin {"updateDisplay: recreate surface",
                          "updateDisplay: recreate context"})
    /\ [][(UpdateHandled /\ ~rt'.result)
             => mw'.widget = mw.widget /\ disp' = disp /\ vmState' = vmState]_vars

\* C17: whenever a display create or update has completed (no display
\* request is in flight and the display has a surface), g_gs_window_info
\* holds the window info of the surface in use; once the display has been
\* released the record is empty.
C17_WindowInfoCurrent ==
    /\ (rt.kind = "none" /\ disp.surface /\ HasValidVM(W) /\ aborted = "no")
          => g_gs_window_info = "surface"
    /\ ~disp.exists => g_gs_window_info = "empty"

\* The machine and display state a caller could see change.
MachineDisplayState ==
    <<vmState, vmCount, disp, ctxCurrent, m_is_fullscreen, m_is_rendering_to_main,
      g_gs_window_info, timerActive, exitFlag, mw.widget>>

\* A public operation is called from the interactive thread in this step.
CalledFromUI == actor' = "ui" /\ nuser' # nuser

\* The call enqueued one command behind those already queued and did
\* nothing else to the machine or the display.
RedirectedOnce ==
    /\ UNCHANGED MachineDisplayState
    /\ nsub' = nsub + 1
    /\ Len(emuQueue') = Len(emuQueue) + 1
    /\ SubSeq(emuQueue', 1, Len(emuQueue)) = emuQueue
    /\ emuQueue'[Len(emuQueue')].seq = nsub'

\* The slot run on the execution thread acts there: it re-enqueues nothing.
RanInPlace ==
    /\ actor' = "emu" /\ nsub' = nsub /\ emuQueue' = Tail(emuQueue)

\* A pause request has its effect whether it arrives as the queued
\* setVMPaused slot or as an in-place call from the hotkey handler.
PauseEffect ==
    /\ (DispatchOf("setVMPaused") /\ Head(emuQueue).arg /\ vmState = "Running")
          => vmState' = "Paused"
    /\ (DispatchOf("onDisplayWindowKeyEvent") /\ Head(emuQueue).arg.hk = "TogglePause"
           /\ vmState = "Running")
          => vmState' = "Paused"

EventLoopCreated == eloc \notin {"none", "boot"}

\* C19: start() gets past its semaphore (to wire the signals and return)
\* only once the execution thread has created its event loop and released
\* the semaphore, so no command is queued to or dispatched on the execution
\* thread before the event loop exists.
C19_StartWaitsForEventLoop ==
    /\ [][(uimode = "start_wait" /\ uimode' # "start_wait") => EventLoopCreated]_vars
    /\ [](uimode \notin {"prestart", "start_wait"} => EventLoopCreated)
    /\ []((emuQueue # <<>> \/ executedLog # <<>> \/ nsub > 0) => EventLoopCreated)
    /\ [][executedLog' # executedLog => EventLoopCreated /\ uimode # "start_wait"]_vars

\* start() has returned and a command is queued while run() is still
\* between the semaphore release and its loop.
C19_Witness ==
    /\ uimode = "main" /\ eloc = "boot2" /\ emuQueue # <<>> /\ executedLog = <<>>

\* The transitions of the machine state listed for the lifecycle.
ListedTransitions ==
    {<<"Shutdown", "Initializing">>, <<"Initializing", "Running">>,
     <<"Initializing", "Shutdown">>, <<"Running", "Paused">>, <<"Paused", "Running">>,
     <<"Running", "Stopping">>, <<"Paused", "Stopping">>, <<"Stopping", "Shutdown">>}

\* C20: the machine state changes only along the listed transitions; in
\* particular a loaded machine (Running or Paused) becomes absent only by
\* way of Stopping, also when the stop handler tears it down.
C20_ListedTransitionsOnly ==
    [][vmState' # vmState => <<vmState, vmState'>> \in ListedTransitions]_vars

\* EmuThread::stop() has been called: the execution thread is told to stop.
StopRequested == uimode \in {"stop_wait", "done"}

\* Every command submitted so far has been dispatched.
AllExecuted == Len(executedLog) = nsub

ExecuteStarted == eloc = "running_pe" /\ eloc' = "switch"

\* C22: a unit of machine work is started only while the machine state is
\* Running: not after a pause command has made it Paused, nor after a
\* shutdown or stop command has made it Stopping or absent.
C22_ExecuteOnlyWhileRunning == [][ExecuteStarted => vmState = "Running"]_vars

SaveLoadOps == {"loadState", "loadStateFromSlot", "saveState", "saveStateToSlot"}

\* A save-state command is dispatched to a loaded machine and notifies
\* nothing: VMManager::SaveState / SaveStateToSlot has failed.
SaveFailed ==
    /\ executedLog' # executedLog /\ Head(emuQueue).op \in {"saveState", "saveStateToSlot"}
    /\ HasValidVM(W) /\ emitted' = emitted

\* C24: a load or save command, failing or not, neither unloads the machine
\* nor stops the execution thread, and a save that fails leaves the machine
\* state, the display and the save-state files as they were.
C24_FailedSaveKeepsMachine ==
    /\ [][(executedLog' # executedLog /\ Head(emuQueue).op \in SaveLoadOps)
             => /\ vmState' = vmState /\ vmCount' = vmCount /\ disp' = disp
                /\ m_shutdown_flag' = m_shutdown_flag /\ exitFlag' = exitFlag
                /\ aborted' = "no" /\ eloc' = eloc /\ epc' = "idle"]_vars
    /\ [][SaveFailed => saveStates' = saveStates /\ timerActive' = timerActive]_vars

\* A save to a slot has failed on a Running machine, which is still Running.
C24_Witness ==
    /\ lastOp = "saveStateToSlot" /\ vmState = "Running" /\ lastStart = "ok"
    /\ emitted = 0 /\ saveStates = {} /\ eloc = "running_pe"

\* saveStateToSlot is dispatched to a Running machine.
SaveToSlotRunning == DispatchOf("saveStateToSlot") /\ vmState = "Running"

\* The file a queued saveStateToSlot command addresses.
SlotFile == GetSaveStateFileName(GameSerial, GameCRC, Head(emuQueue).arg)

C26_FatalPreconditions ==
    /\ [](nthreads <= 1)
    /\ [][CallStartAgain
             => aborted' = "start: Emu thread does not exist" /\ eloc' = eloc
                /\ uimode' = uimode]_vars
    /\ [][CallStopNoThread => aborted' = "stop: Emu thread exists" /\ emuQueue' = emuQueue]_vars
    /\ [][CallStopOnEmuThread
             => aborted' = "stop: Not called on the emu thread" /\ emuQueue' = emuQueue
                /\ uimode' = uimode]_vars
    /\ [](aborted # "no" => ~ENABLED NextCalls)

\* start() has been called a second time with a machine Running.
C26_Witness ==
    /\ aborted = "start: Emu thread does not exist" /\ nthreads = 1
    /\ vmState = "Running" /\ eloc = "running_pe"

\* C27: doBackgroundControllerPoll never runs while the machine state is
\* Running: the poll timer is inactive in every state that is Running.
C27_NoPollWhileRunning ==
    /\ [](vmState = "Running" => ~timerActive)
    /\ [][EmuPoll => vmState # "Running"]_vars

\* A poll has run in the paused wait of a machine that was Running.
C27_Witness ==
    /\ lastOp = "doBackgroundControllerPoll" /\ vmState = "Paused"
    /\ eloc = "paused_exec" /\ timerActive

\* The hotkey event at the head of the queue is dispatched.
KeyDispatched == DispatchOf("onDisplayWindowKeyEvent")

\* C28: a hotkey handler invoked on the pressed edge changes nothing; on
\* the released edge TogglePause requests paused = (state is not Paused),
\* so that of two releases the second undoes the first on a loaded machine.
C28_HotkeysOnRelease ==
    /\ [][(KeyDispatched /\ Head(emuQueue).arg.pressed)
             => /\ vmState' = vmState /\ m_is_fullscreen' = m_is_fullscreen
                /\ rt' = rt /\ epc' = epc /\ uiQueue' = uiQueue /\ nsub' = nsub
                /\ timerActive' = timerActive /\ exitFlag' = exitFlag]_vars
    /\ [][(KeyDispatched /\ ~Head(emuQueue).arg.pressed
              /\ Head(emuQueue).arg.hk = "TogglePause" /\ HasValidVM(W))
             => vmState' = (IF vmState = "Paused" THEN "Running" ELSE "Paused")]_vars
    /\ [][(KeyDispatched /\ ~Head(emuQueue).arg.pressed
              /\ Head(emuQueue).arg.hk = "ToggleFullscreen" /\ HasValidVM(W))
             => m_is_fullscreen' = ~m_is_fullscreen]_vars

\* Two TogglePause releases have been applied: the machine, paused by the
\* first, is Running again and the resume notification is still queued.
C28_Witness ==
    /\ lastOp = "onDisplayWindowKeyEvent" /\ vmState = "Running"
    /\ Len(executedLog) = 3
    /\ \E i \in 1..Len(uiQueue) : uiQueue[i].kind = "onVMResumed"

\* shutdownVM(blocking = true) returns to its caller on the interactive thread.
BlockingShutdownReturns == uimode = "shutdown_wait" /\ uimode' = "main"

\* C29: when shutdownVM(blocking = true), called on the interactive thread
\* with a machine Running or Paused, returns, the teardown is complete: the
\* machine state is absent and the display widget has been destroyed.
C29_BlockingShutdownComplete ==
    [][BlockingShutdownReturns => vmState' = "Shutdown" /\ ~mw'.widget.present]_vars

\* The step in which the execution thread runs a queued shutdownVM.
ShutdownDispatched == DispatchOf("shutdownVM")

\* Everything a shutdown command could touch besides the dispatch itself.
ShutdownLeaves ==
    /\ vmState' = vmState /\ vmCount' = vmCount /\ exitFlag' = exitFlag
    /\ m_shutdown_flag' = m_shutdown_flag /\ timerActive' = timerActive
    /\ uiQueue' = uiQueue /\ rt' = rt /\ disp' = disp /\ mw' = mw
    /\ ctxCurrent' = ctxCurrent /\ m_is_fullscreen' = m_is_fullscreen
    /\ m_is_rendering_to_main' = m_is_rendering_to_main
    /\ g_gs_window_info' = g_gs_window_info /\ saveStates' = saveStates
    /\ aborted' = aborted /\ emitted' = emitted /\ eloc' = eloc /\ epc' = epc

\* The immediate effect C30 describes: a shutdown command executed while the
\* machine state is Initializing, Stopping or absent changes nothing; executed while Running or Paused it
\* sets the state to Stopping, and from Paused it also wakes the paused wait.
C30_ShutdownCommandEffect ==
    /\ [][(ShutdownDispatched /\ vmState \in {"Initializing", "Stopping", "Shutdown"})
             => ShutdownLeaves]_vars
    /\ [][(ShutdownDispatched /\ vmState \in {"Running", "Paused"})
             => vmState' = "Stopping"]_vars
    /\ [][(ShutdownDispatched /\ vmState = "Paused") => exitFlag']_vars

\* C30: a shutdown command that has set the state to Stopping leads to the
\* teardown being performed (the state becomes absent), unless a release
\* assertion ends the process first.
C30_TeardownFollows == (vmState = "Stopping") ~> (vmState = "Shutdown" \/ aborted # "no")

\* A start command is dispatched directly behind a shutdown command.
StartBehindShutdown == DispatchOf("startVM") /\ lastOp = "shutdownVM"

Submitted == SubSeq(emuQueue', Len(emuQueue) + 1, Len(emuQueue'))

\* The pause state after the setVMPaused commands of q have been applied to a
\* machine whose pause state is p.
RECURSIVE PausedAfter(_, _)
PausedAfter(p, q) ==
    IF q = <<>> THEN p
    ELSE PausedAfter(IF Head(q).op = "setVMPaused" THEN Head(q).arg ELSE p, Tail(q))

\* C33: ScopedVMPause restores the pause state that held at its construction:
\* once the commands submitted by the scope of
\* onChangeDiscFromFileActionTriggered have been applied, a machine that was
\* running runs again and one that was paused is still paused.
C33_ScopedPauseRestores ==
    [][UserChangeDisc => PausedAfter(mw.m_vm_paused, Submitted) = mw.m_vm_paused]_vars

\* C34: createDisplay is never requested with fullscreen and render-to-main
\* both true, so its assertion never fires, after any sequence of start,
\* setFullscreen, toggleFullscreen, applySettings and display re-acquisition.
C34_CreateAssertionNeverFires ==
    aborted # "createDisplay: fullscreen and render to main"

\* Every notification queued to the interactive thread has been delivered.
AllDelivered == uiQueue = <<>>

\* A machine is loaded: MachineState has one of its four values.
MachineLoaded == vmState # "Shutdown"

\* C35: once every notification queued to the interactive thread has been
\* delivered, m_vm_valid is true iff a machine is loaded and m_vm_paused is
\* true iff MachineState is Paused.
C35_MirroredFlagsAgree ==
    AllDelivered => /\ mw.m_vm_valid = MachineLoaded
                    /\ mw.m_vm_paused = (vmState = "Paused")

\* C35 as it holds: m_vm_paused may still be true while a machine that was
\* paused is Stopping; it is cleared by the machine-stopped notification.
C35_MirroredFlagsAgreeUnlessStopping ==
    AllDelivered => /\ mw.m_vm_valid = MachineLoaded
                    /\ vmState # "Stopping" => mw.m_vm_paused = (vmState = "Paused")

\* A start has failed and all its notifications have been delivered.
C35_Witness ==
    /\ AllDelivered /\ lastStart = "failed" /\ vmState = "Shutdown"
    /\ ~mw.m_vm_valid /\ ~mw.m_vm_paused /\ mw.actions = "none" /\ epc = "idle"

\* A start command is dispatched while the previous machine is Stopping.
StartWhileStopping == DispatchOf("startVM") /\ vmState = "Stopping"

\* C36: a start command dequeued while the previous machine is still Stopping
\* does not begin initialising a new machine before the teardown of the
\* previous one has completed: it announces no start, leaves the display
\* mode of the machine being torn down alone and does not enter
\* VMManager::Initialize.
C36_StartWaitsForTeardown ==
    [][StartWhileStopping
          => /\ uiQueue' = uiQueue /\ aborted' = aborted
             /\ m_is_fullscreen' = m_is_fullscreen
             /\ m_is_rendering_to_main' = m_is_rendering_to_main]_vars

\* The interactive thread switches from the game list back to the emulation
\* view of a loaded machine, with only pause commands still queued.
SwitchedBack ==
    /\ UserViewSystemDisplay /\ mw.viewIndex = 0 /\ mw'.viewIndex = 1
    /\ HasValidVM(W)
    /\ \A i \in DOMAIN emuQueue' : emuQueue'[i].op = "setVMPaused"

\* C37: switching to the game list view and back restores the pause state the
\* machine had before the first switch (the state the first switch recorded),
\* also when the switch back happens before the machine-paused notification
\* has reached the interactive thread: once the queued commands have been
\* applied, the machine is paused iff it was paused before.
C37_ViewSwitchRestoresPause ==
    [][SwitchedBack
          => PausedAfter(vmState = "Paused", emuQueue') = mw.m_was_focused]_vars

\* start() is called again after stop() has returned.
StartAfterStop == CallStartAgain /\ uimode = "done"

\* C38: after stop() has returned, the controller handle g_emu_thread no
\* longer refers to the stopped controller, so that start() can be called
\* again without violating its precondition.
C38_StartAfterStopAllowed == [][StartAfterStop => aborted' = "no"]_vars

\* The controller object still has the affinity of the interactive thread:
\* start() has not yet reached moveToThread(g_emu_thread).
NotYetMoved == uimode = "start_wait"

\* C39: the background poll timer is created in run() only after the
\* interactive thread has moved the controller object to the execution
\* thread in start().
C39_TimerCreatedAfterMove == [][EmuBootTimer => ~NotYetMoved]_vars

\* No command is queued or in progress and no display request or
\* notification is in flight: every applySettings submitted has been applied.
DisplayQuiet ==
    /\ emuQueue = <<>> /\ uiQueue = <<>> /\ epc = "idle" /\ rt = NoRT
    /\ aborted = "no"

\* C40: whenever a machine is loaded, the display is not fullscreen and no
\* display update is in progress, the surface is embedded in the main window
\* iff the RenderToMainWindow setting was true at the last applySettings; a
\* setting change applied while fullscreen takes effect when fullscreen is left.
C40_EmbeddedIffSetting ==
    (HasValidVM(W) /\ ~m_is_fullscreen /\ DisplayQuiet /\ appliedSetting # "none")
        => (Embedded(mw.widget) = (appliedSetting = "on"))

====
